---------------------------- MODULE Spec2Model ----------------------------
(***************************************************************************)
(* Model of the API Response Explorer (src/src/components/AppShell.tsx):   *)
(* the strict JSON decoder, the lenient normalizer (a pipeline of regex    *)
(* rewrites followed by a strict decode), the serializer, the path index  *)
(* (extractPaths, filterPaths; the tree of src/unnamed/part_001), and the  *)
(* component's state with its Fetch / Reset / paste handlers.              *)
(*                                                                         *)
(* Text is a sequence of one-character strings.  A decoded value is a      *)
(* record [t, v]: t is the JavaScript type tag and v the payload.  Objects *)
(* are sequences of <<key, value>> pairs in JavaScript's own enumeration   *)
(* order (array-index keys ascending, then the others in insertion order). *)
(***************************************************************************)
EXTENDS Integers, Sequences, FiniteSets, TLC

VARIABLES
    \* ---- component state (useState hooks of AppShell) ----
    domain, endpoint, isLoading, error, statusCode, rawJson,
    toast, isPasteOverlayOpen, pasteBuffer,
    responseTimeMs, responseSizeBytes,
    \* ---- the environment of the component ----
    inflight,          \* onFetch invocations suspended at an await
    clipboardPending,  \* a navigator.clipboard.readText() not yet settled
    \* ---- the history of the run (read by no handler) ----
    hSuperseded,       \* a Reset or an applied paste since the fetch in flight started
    hRawCur,           \* rawJson was written by the onFetch invocation started last
    \* ---- the normalizer applied as a pure function ----
    fnCase, fnInput, fnOutput, fnAgain, fnPc,
    \* ---- the path index and the tree applied as pure functions ----
    ixCase, ixText, ixValue, ixPaths, ixFlat, ixTree, ixPruned, ixPc

appVars == <<domain, endpoint, isLoading, error, statusCode, rawJson,
             toast, isPasteOverlayOpen, pasteBuffer,
             responseTimeMs, responseSizeBytes, inflight, clipboardPending,
             hSuperseded, hRawCur>>
histVars == <<hSuperseded, hRawCur>>
fnVars == <<fnCase, fnInput, fnOutput, fnAgain, fnPc>>
ixVars == <<ixCase, ixText, ixValue, ixPaths, ixFlat, ixTree, ixPruned, ixPc>>
pureVars == <<fnVars, ixVars>>
vars == <<appVars, fnVars, ixVars>>

---------------------------------------------------------------------------
(* Characters *)

DQ == "\""
SQ == "'"
BS == "\\"
NL == "\n"
TAB == "\t"
CR == "\r"

Digits == {"0", "1", "2", "3", "4", "5", "6", "7", "8", "9"}
LowerLetters == {"a", "b", "c", "d", "e", "f", "g", "h", "i", "j", "k", "l", "m",
                 "n", "o", "p", "q", "r", "s", "t", "u", "v", "w", "x", "y", "z"}
UpperLetters == {"A", "B", "C", "D", "E", "F", "G", "H", "I", "J", "K", "L", "M",
                 "N", "O", "P", "Q", "R", "S", "T", "U", "V", "W", "X", "Y", "Z"}
Letters == LowerLetters \cup UpperLetters

\* JSON insignificant whitespace (RFC 8259): space, tab, line feed, carriage return
JsonWs == {" ", TAB, NL, CR}
\* the regex class \s, restricted to the characters of the model
IsSpace(c) == c \in {" ", TAB, NL, CR}
\* what the regex "." does not match and "$" (flag m) stands before
IsLineTerminator(c) == c \in {NL, CR}
\* the regex class \w, on which \b is defined
IsWordChar(c) == c \in Letters \cup Digits \cup {"_"}
\* [A-Za-z_] and [A-Za-z0-9_\-] of the key-quoting regex
IsIdentStart(c) == c \in Letters \cup {"_"}
IsIdentChar(c) == c \in Letters \cup Digits \cup {"_", "-"}

\* s.startsWith(p, i) with 1-based i
StartsWithAt(s, p, i) ==
    /\ i >= 1
    /\ i + Len(p) - 1 <= Len(s)
    /\ SubSeq(s, i, i + Len(p) - 1) = p

\* concatenation of the sequences f[lo], ..., f[hi]
RECURSIVE ConcatRange(_, _, _)
ConcatRange(f, lo, hi) ==
    IF lo > hi THEN <<>>
    ELSE IF lo = hi THEN f[lo]
    ELSE LET mid == (lo + hi) \div 2 IN ConcatRange(f, lo, mid) \o ConcatRange(f, mid + 1, hi)

\* String.prototype.trim, on the whitespace of the model
TrimLeft(s) ==
    IF \A i \in 1..Len(s) : IsSpace(s[i]) THEN <<>>
    ELSE SubSeq(s, CHOOSE i \in 1..Len(s) :
                       ~IsSpace(s[i]) /\ \A k \in 1..(i - 1) : IsSpace(s[k]), Len(s))
TrimRight(s) ==
    IF \A i \in 1..Len(s) : IsSpace(s[i]) THEN <<>>
    ELSE SubSeq(s, 1, CHOOSE i \in 1..Len(s) :
                          ~IsSpace(s[i]) /\ \A k \in (i + 1)..Len(s) : IsSpace(s[k]))
Trim(s) == TrimRight(TrimLeft(s))

---------------------------------------------------------------------------
(* Values *)

Null == [t |-> "null", v |-> 0]
Bool(b) == [t |-> "bool", v |-> b]
Num(n) == [t |-> "num", v |-> n]
Str(s) == [t |-> "str", v |-> s]
Arr(es) == [t |-> "arr", v |-> es]
Obj(ps) == [t |-> "obj", v |-> ps]

\* the texts of the literals
tNull == <<"n", "u", "l", "l">>
tTrue == <<"t", "r", "u", "e">>
tFalse == <<"f", "a", "l", "s", "e">>

\* a "T | null" or optional value: <<>> for null / absent, <<x>> for x
None == <<>>
Some(x) == <<x>>

\* JavaScript truthiness of a decoded value (the test in "parsedObject ? a : b")
Truthy(x) ==
    CASE x.t = "null" -> FALSE
      [] x.t = "bool" -> x.v
      [] x.t = "num" -> x.v # 0
      [] x.t = "str" -> x.v # <<>>
      [] OTHER -> TRUE

DigitVal(c) ==
    CASE c = "0" -> 0 [] c = "1" -> 1 [] c = "2" -> 2 [] c = "3" -> 3 [] c = "4" -> 4
      [] c = "5" -> 5 [] c = "6" -> 6 [] c = "7" -> 7 [] c = "8" -> 8 [] c = "9" -> 9
DigitChar(d) == <<"0", "1", "2", "3", "4", "5", "6", "7", "8", "9">>[d + 1]

RECURSIVE DigitsVal(_, _)
DigitsVal(ds, acc) ==
    IF ds = <<>> THEN acc ELSE DigitsVal(Tail(ds), 10 * acc + DigitVal(Head(ds)))

RECURSIVE NumToChars(_)
NumToChars(n) == IF n < 10 THEN <<DigitChar(n)>> ELSE NumToChars(n \div 10) \o <<DigitChar(n % 10)>>

\* an own property key that is a canonical array index ("0", "7", "12"):
\* JavaScript enumerates these first, in ascending numeric order
IsIndexKey(k) ==
    /\ k # <<>>
    /\ \A i \in 1..Len(k) : k[i] \in Digits
    /\ (Len(k) > 1 => k[1] # "0")

RECURSIVE ObjFind(_, _, _)
ObjFind(ps, k, i) ==
    IF i > Len(ps) THEN 0 ELSE IF ps[i][1] = k THEN i ELSE ObjFind(ps, k, i + 1)

\* number of leading pairs that stay in front of a new index key k
RECURSIVE IndexSlot(_, _, _)
IndexSlot(ps, k, i) ==
    IF i > Len(ps) THEN Len(ps)
    ELSE IF IsIndexKey(ps[i][1]) /\ DigitsVal(ps[i][1], 0) < DigitsVal(k, 0)
         THEN IndexSlot(ps, k, i + 1)
         ELSE i - 1

\* obj[k] = v on an ordinary object: a repeated key keeps its place and takes
\* the new value
ObjPut(ps, k, v) ==
    LET at == ObjFind(ps, k, 1) IN
    IF at # 0 THEN [ps EXCEPT ![at] = <<k, v>>]
    ELSE IF IsIndexKey(k)
         THEN LET n == IndexSlot(ps, k, 1) IN
              SubSeq(ps, 1, n) \o <<<<k, v>>>> \o SubSeq(ps, n + 1, Len(ps))
         ELSE Append(ps, <<k, v>>)

---------------------------------------------------------------------------
(* JSON.parse: a recursive-descent decoder of RFC 8259 text.               *)
(* Every parser returns [ok, val, pos]: pos is the index after the value.  *)
(* Numbers are the non-negative integers; the escapes are \" \\ \/ \n \t   *)
(* \r.  Any other escape (\' among them) is a syntax error, as in JSON.    *)

PFail == [ok |-> FALSE, val |-> Null, pos |-> 0]
POk(v, p) == [ok |-> TRUE, val |-> v, pos |-> p]

\* the first index >= i not holding JSON whitespace
SkipWs(s, i) ==
    IF i > Len(s) THEN i
    ELSE LET j == CHOOSE j \in i..(Len(s) + 1) :
                     /\ (j > Len(s) \/ s[j] \notin JsonWs)
                     /\ \A k \in i..(j - 1) : s[k] \in JsonWs
         IN  j

\* the first index >= i of a character that a string body cannot hold as it
\* stands (the closing quote, a backslash, a control character), or 0
StringStop(s, i) ==
    IF \E j \in i..Len(s) : s[j] \in {DQ, BS, NL, TAB, CR}
    THEN CHOOSE j \in i..Len(s) :
            /\ s[j] \in {DQ, BS, NL, TAB, CR}
            /\ \A k \in i..(j - 1) : s[k] \notin {DQ, BS, NL, TAB, CR}
    ELSE 0

\* the characters of a string literal after its opening quote
RECURSIVE ParseStringBody(_, _, _)
ParseStringBody(s, i, acc) ==
    LET j == StringStop(s, i)
        run == acc \o SubSeq(s, i, j - 1)
    IN  IF j = 0 THEN PFail
        ELSE IF s[j] = DQ THEN POk(run, j + 1)
        ELSE IF s[j] \in {NL, TAB, CR} THEN PFail
        ELSE IF j + 1 > Len(s) THEN PFail
        ELSE LET e == s[j + 1] IN
             CASE e \in {DQ, BS, "/"} -> ParseStringBody(s, j + 2, Append(run, e))
               [] e = "n" -> ParseStringBody(s, j + 2, Append(run, NL))
               [] e = "t" -> ParseStringBody(s, j + 2, Append(run, TAB))
               [] e = "r" -> ParseStringBody(s, j + 2, Append(run, CR))
               [] OTHER -> PFail

\* the first index >= i not holding a digit
DigitsEnd(s, i) ==
    CHOOSE j \in i..(Len(s) + 1) :
        /\ (j > Len(s) \/ s[j] \notin Digits)
        /\ \A k \in i..(j - 1) : s[k] \in Digits

\* int = "0" / ( digit1-9 *DIGIT ); a fraction or an exponent is not modelled
ParseNumber(s, i) ==
    LET j == IF s[i] = "0" THEN i + 1 ELSE DigitsEnd(s, i) IN
    IF j <= Len(s) /\ s[j] \in {".", "e", "E"} THEN PFail
    ELSE POk(Num(DigitsVal(SubSeq(s, i, j - 1), 0)), j)

ParseLiteral(s, i) ==
    CASE StartsWithAt(s, <<"t", "r", "u", "e">>, i) -> POk(Bool(TRUE), i + 4)
      [] StartsWithAt(s, <<"f", "a", "l", "s", "e">>, i) -> POk(Bool(FALSE), i + 5)
      [] StartsWithAt(s, <<"n", "u", "l", "l">>, i) -> POk(Null, i + 4)
      [] OTHER -> PFail

RECURSIVE ParseValue(_, _)
RECURSIVE ParseElements(_, _, _)
RECURSIVE ParseMembers(_, _, _)

\* a value starting at s[i] (whitespace already skipped)
ParseValue(s, i) ==
    IF i > Len(s) THEN PFail
    ELSE CASE s[i] = "{" ->
                LET j == SkipWs(s, i + 1) IN
                IF j <= Len(s) /\ s[j] = "}" THEN POk(Obj(<<>>), j + 1)
                ELSE ParseMembers(s, j, <<>>)
           [] s[i] = "[" ->
                LET j == SkipWs(s, i + 1) IN
                IF j <= Len(s) /\ s[j] = "]" THEN POk(Arr(<<>>), j + 1)
                ELSE ParseElements(s, j, <<>>)
           [] s[i] = DQ ->
                LET r == ParseStringBody(s, i + 1, <<>>) IN
                IF r.ok THEN POk(Str(r.val), r.pos) ELSE PFail
           [] s[i] \in Digits -> ParseNumber(s, i)
           [] OTHER -> ParseLiteral(s, i)

\* value *( "," value ) "]", the first value starting at s[i]
ParseElements(s, i, acc) ==
    LET r == ParseValue(s, i) IN
    IF ~r.ok THEN PFail
    ELSE LET j == SkipWs(s, r.pos) IN
         IF j > Len(s) THEN PFail
         ELSE IF s[j] = "]" THEN POk(Arr(Append(acc, r.val)), j + 1)
         ELSE IF s[j] = "," THEN ParseElements(s, SkipWs(s, j + 1), Append(acc, r.val))
         ELSE PFail

\* member *( "," member ) "}", the first member starting at s[i]
ParseMembers(s, i, acc) ==
    IF i > Len(s) \/ s[i] # DQ THEN PFail
    ELSE LET k == ParseStringBody(s, i + 1, <<>>) IN
         IF ~k.ok THEN PFail
         ELSE LET c == SkipWs(s, k.pos) IN
              IF c > Len(s) \/ s[c] # ":" THEN PFail
              ELSE LET r == ParseValue(s, SkipWs(s, c + 1)) IN
                   IF ~r.ok THEN PFail
                   ELSE LET j == SkipWs(s, r.pos)
                            ps == ObjPut(acc, k.val, r.val)
                        IN  IF j > Len(s) THEN PFail
                            ELSE IF s[j] = "}" THEN POk(Obj(ps), j + 1)
                            ELSE IF s[j] = ","
                                 THEN ParseMembers(s, SkipWs(s, j + 1), ps)
                                 ELSE PFail

\* the value r read from text is the whole of text but for whitespace
WholeText(text, r) ==
    IF r.ok /\ SkipWs(text, r.pos) > Len(text)
    THEN [ok |-> TRUE, val |-> r.val]
    ELSE [ok |-> FALSE, val |-> Null]

\* JSON.parse(text): ok = FALSE stands for the SyntaxError it throws
JsonParse(text) == WholeText(text, ParseValue(text, SkipWs(text, 1)))

\* try { return r } catch { return null }
OrNull(r) == IF r.ok THEN r.val ELSE Null

\* Safe JSON parse; returns null if invalid
parseJsonSafely(text) == OrNull(JsonParse(text))

---------------------------------------------------------------------------
(* JSON.stringify(value, null, 2) *)

RECURSIVE Spaces(_)
Spaces(n) == IF n = 0 THEN <<>> ELSE <<" ">> \o Spaces(n - 1)

\* a character written into a string literal as it stands, unescaped
QuoteChar_Raw(c) == <<c>>

QuoteChar(c) ==
    CASE c = DQ -> <<BS, DQ>>
      [] c = BS -> <<BS, BS>>
      [] c = NL -> <<BS, "n">>
      [] c = TAB -> <<BS, "t">>
      [] c = CR -> <<BS, "r">>
      [] OTHER -> <<c>>

QuoteChars(s) == ConcatRange([i \in 1..Len(s) |-> QuoteChar(s[i])], 1, Len(s))

QuoteJson(s) == <<DQ>> \o QuoteChars(s) \o <<DQ>>

RECURSIVE StringifyAt(_, _)
RECURSIVE StringifyItems(_, _, _, _)

\* the items of a non-empty container, one per line at the given indent
StringifyItems(items, isObj, ind, i) ==
    LET it == items[i]
        one == Spaces(ind)
               \o (IF isObj THEN QuoteJson(it[1]) \o <<":", " ">> \o StringifyAt(it[2], ind)
                   ELSE StringifyAt(it, ind))
    IN  IF i = Len(items) THEN one \o <<NL>>
        ELSE one \o <<",", NL>> \o StringifyItems(items, isObj, ind, i + 1)

StringifyAt(x, ind) ==
    CASE x.t = "null" -> <<"n", "u", "l", "l">>
      [] x.t = "bool" -> IF x.v THEN <<"t", "r", "u", "e">> ELSE <<"f", "a", "l", "s", "e">>
      [] x.t = "num" -> NumToChars(x.v)
      [] x.t = "str" -> QuoteJson(x.v)
      [] x.t = "arr" ->
            IF x.v = <<>> THEN <<"[", "]">>
            ELSE <<"[", NL>> \o StringifyItems(x.v, FALSE, ind + 2, 1) \o Spaces(ind) \o <<"]">>
      [] x.t = "obj" ->
            IF x.v = <<>> THEN <<"{", "}">>
            ELSE <<"{", NL>> \o StringifyItems(x.v, TRUE, ind + 2, 1) \o Spaces(ind) \o <<"}">>

Stringify(x) == StringifyAt(x, 0)

---------------------------------------------------------------------------
(* The rewrite stages of parseJsonFlexible.  Each String.prototype.replace *)
(* with a /g regex is a left-to-right scan: the leftmost index at which    *)
(* the regex matches is found, the text before it is copied, the           *)
(* replacement is emitted and the scan resumes after the match.  For each  *)
(* regex, XxxEnd(s, j) is the index after the match that starts at j, or 0 *)
(* when the regex does not match at j.                                     *)

\* the least j in lo..hi with P(j), or 0
FirstAt(P(_), lo, hi) ==
    IF \E j \in lo..hi : P(j)
    THEN CHOOSE j \in lo..hi : P(j) /\ \A k \in lo..(j - 1) : ~P(k)
    ELSE 0

\* first index j >= i with s[j..j+1] = "*/", or 0
FindBlockEnd(s, i) ==
    LET P(j) == s[j] = "*" /\ s[j + 1] = "/" IN FirstAt(P, i, Len(s) - 1)

\* /\/\*[\s\S]*?\*\//
BlockCommentEnd(s, j) ==
    IF StartsWithAt(s, <<"/", "*">>, j)
    THEN LET e == FindBlockEnd(s, j + 2) IN IF e = 0 THEN 0 ELSE e + 2
    ELSE 0

\* text.replace(/\/\*[\s\S]*?\*\//g, "")
RECURSIVE StripBlockFrom(_, _)
StripBlockFrom(s, i) ==
    LET P(j) == BlockCommentEnd(s, j) # 0
        m == FirstAt(P, i, Len(s))
    IN  IF m = 0 THEN SubSeq(s, i, Len(s))
        ELSE SubSeq(s, i, m - 1) \o StripBlockFrom(s, BlockCommentEnd(s, m))

StripBlockComments(s) == StripBlockFrom(s, 1)

\* first index j >= i holding a line terminator, or Len(s) + 1: where ".*$" ends
LineEnd(s, i) ==
    LET P(j) == IsLineTerminator(s[j])
        e == FirstAt(P, i, Len(s))
    IN  IF e = 0 THEN Len(s) + 1 ELSE e

\* "^" under flag m
AtLineStart(s, i) == i = 1 \/ IsLineTerminator(s[i - 1])

\* /(^|\s)\/\/.*$/m
LineCommentEnd(s, j) ==
    IF AtLineStart(s, j) /\ StartsWithAt(s, <<"/", "/">>, j) THEN LineEnd(s, j + 2)
    ELSE IF IsSpace(s[j]) /\ StartsWithAt(s, <<"/", "/">>, j + 1) THEN LineEnd(s, j + 3)
    ELSE 0

\* text.replace(/(^|\s)\/\/.*$/gm, "")
RECURSIVE StripLineFrom(_, _)
StripLineFrom(s, i) ==
    LET P(j) == LineCommentEnd(s, j) # 0
        m == FirstAt(P, i, Len(s))
    IN  IF m = 0 THEN SubSeq(s, i, Len(s))
        ELSE SubSeq(s, i, m - 1) \o StripLineFrom(s, LineCommentEnd(s, m))

StripLineComments(s) == StripLineFrom(s, 1)

\* ([^'\\]|\\.)* from index i: the index where the repetition stops
RECURSIVE SingleQuoteBodyEnd(_, _)
SingleQuoteBodyEnd(s, i) ==
    IF i > Len(s) \/ s[i] = SQ THEN i
    ELSE IF s[i] = BS
         THEN IF i + 1 <= Len(s) /\ ~IsLineTerminator(s[i + 1])
              THEN SingleQuoteBodyEnd(s, i + 2)
              ELSE i
    ELSE SingleQuoteBodyEnd(s, i + 1)

\* /'([^'\\]|\\.)*'/
SingleQuotedEnd(s, j) ==
    IF s[j] = SQ
    THEN LET e == SingleQuoteBodyEnd(s, j + 1) IN
         IF e <= Len(s) /\ s[e] = SQ THEN e + 1 ELSE 0
    ELSE 0

\* inner.replace(/\\'/g, "'")
RECURSIVE UnescapeSingle(_)
UnescapeSingle(s) ==
    LET P(j) == StartsWithAt(s, <<BS, SQ>>, j)
        m == FirstAt(P, 1, Len(s))
    IN  IF m = 0 THEN s
        ELSE SubSeq(s, 1, m - 1) \o <<SQ>> \o UnescapeSingle(SubSeq(s, m + 2, Len(s)))

\* inner.replace(/"/g, '\\"')
EscapeDouble(s) ==
    ConcatRange([i \in 1..Len(s) |-> IF s[i] = DQ THEN <<BS, DQ>> ELSE <<s[i]>>], 1, Len(s))

\* the replacement callback of stage 2
RequoteSingle(m) ==
    <<DQ>> \o EscapeDouble(UnescapeSingle(SubSeq(m, 2, Len(m) - 1))) \o <<DQ>>

\* text.replace(/'([^'\\]|\\.)*'/g, (m) => ...)
RECURSIVE QuoteFrom(_, _)
QuoteFrom(s, i) ==
    LET P(j) == SingleQuotedEnd(s, j) # 0
        m == FirstAt(P, i, Len(s))
        e == SingleQuotedEnd(s, m)
    IN  IF m = 0 THEN SubSeq(s, i, Len(s))
        ELSE SubSeq(s, i, m - 1) \o RequoteSingle(SubSeq(s, m, e - 1)) \o QuoteFrom(s, e)

NormalizeQuotes(s) == QuoteFrom(s, 1)

\* \s* from index i: the first index not holding whitespace
SkipSpace(s, i) ==
    LET P(j) == ~IsSpace(s[j])
        e == FirstAt(P, i, Len(s))
    IN  IF e = 0 THEN Len(s) + 1 ELSE IF i > Len(s) THEN i ELSE e

\* [A-Za-z0-9_\-]* from index i
IdentEnd(s, i) ==
    LET P(j) == ~IsIdentChar(s[j])
        e == FirstAt(P, i, Len(s))
    IN  IF e = 0 THEN Len(s) + 1 ELSE e

\* /([\{,]\s*)([A-Za-z_][A-Za-z0-9_\-]*)(\s*:\s*)/ at j: <<start of the key,
\* index after the key, index after the match>>, or <<0, 0, 0>>
KeyMatch(s, j) ==
    LET k == SkipSpace(s, j + 1)
        hasKey == s[j] \in {"{", ","} /\ k <= Len(s) /\ IsIdentStart(s[k])
        ke == IdentEnd(s, k)
        c == SkipSpace(s, ke)
    IN  IF hasKey /\ c <= Len(s) /\ s[c] = ":"
        THEN <<k, ke, SkipSpace(s, c + 1)>>
        ELSE <<0, 0, 0>>

\* text.replace(/([\{,]\s*)([A-Za-z_][A-Za-z0-9_\-]*)(\s*:\s*)/g,
\*              (_m, p1, key, p3) => `${p1}"${key}"${p3}`)
RECURSIVE KeysFrom(_, _)
KeysFrom(s, i) ==
    LET P(j) == KeyMatch(s, j)[3] # 0
        m == FirstAt(P, i, Len(s))
        km == KeyMatch(s, m)
    IN  IF m = 0 THEN SubSeq(s, i, Len(s))
        ELSE SubSeq(s, i, km[1] - 1) \o <<DQ>> \o SubSeq(s, km[1], km[2] - 1) \o <<DQ>>
             \o SubSeq(s, km[2], km[3] - 1) \o KeysFrom(s, km[3])

QuoteKeys(s) == KeysFrom(s, 1)

\* /,\s*([}\]])/ at j: the index of the bracket, or 0
TrailingCommaBracket(s, j) ==
    LET k == SkipSpace(s, j + 1) IN
    IF s[j] = "," /\ k <= Len(s) /\ s[k] \in {"}", "]"} THEN k ELSE 0

\* text.replace(/,\s*([}\]])/g, '$1')
RECURSIVE CommasFrom(_, _)
CommasFrom(s, i) ==
    LET P(j) == TrailingCommaBracket(s, j) # 0
        m == FirstAt(P, i, Len(s))
        k == TrailingCommaBracket(s, m)
    IN  IF m = 0 THEN SubSeq(s, i, Len(s))
        ELSE SubSeq(s, i, m - 1) \o <<s[k]>> \o CommasFrom(s, k + 1)

RemoveTrailingCommas(s) == CommasFrom(s, 1)

UndefinedWord == <<"u", "n", "d", "e", "f", "i", "n", "e", "d">>

\* /\bundefined\b/ at j
UndefinedAt(s, j) ==
    /\ StartsWithAt(s, UndefinedWord, j)
    /\ (j = 1 \/ ~IsWordChar(s[j - 1]))
    /\ (j + Len(UndefinedWord) > Len(s) \/ ~IsWordChar(s[j + Len(UndefinedWord)]))

\* text.replace(/\bundefined\b/g, 'null')
RECURSIVE UndefinedFrom(_, _)
UndefinedFrom(s, i) ==
    LET P(j) == UndefinedAt(s, j)
        m == FirstAt(P, i, Len(s))
    IN  IF m = 0 THEN SubSeq(s, i, Len(s))
        ELSE SubSeq(s, i, m - 1) \o <<"n", "u", "l", "l">>
             \o UndefinedFrom(s, m + Len(UndefinedWord))

ReplaceUndefined(s) == UndefinedFrom(s, 1)

\* the text handed to the final decode: stages 1 to 5 in the code's order
RewriteStages(input) ==
    ReplaceUndefined(RemoveTrailingCommas(QuoteKeys(NormalizeQuotes(
        StripLineComments(StripBlockComments(input))))))

\* if (strict !== null) return strict; ...; return parseJsonSafely(text)
StrictOrRewritten(strict, input) ==
    IF strict # Null THEN strict ELSE parseJsonSafely(RewriteStages(input))

\* parseJsonFlexible without its fast path: the stages run on every input
parseJsonFlexible_NoFastPath(input) == parseJsonSafely(RewriteStages(input))

\* Parse more permissive inputs: single quotes, unquoted keys, trailing commas,
\* JS-style comments
parseJsonFlexible(input) == StrictOrRewritten(parseJsonSafely(input), input)

---------------------------------------------------------------------------
(* The path index of a decoded value: extractPaths and filterPaths of      *)
(* AppShell.tsx.  A path is a text.                                        *)

UpperSeq == <<"A", "B", "C", "D", "E", "F", "G", "H", "I", "J", "K", "L", "M",
              "N", "O", "P", "Q", "R", "S", "T", "U", "V", "W", "X", "Y", "Z">>
LowerSeq == <<"a", "b", "c", "d", "e", "f", "g", "h", "i", "j", "k", "l", "m",
              "n", "o", "p", "q", "r", "s", "t", "u", "v", "w", "x", "y", "z">>

\* String.prototype.toLowerCase, on the letters of the model
ToLowerCase(s) ==
    [i \in 1..Len(s) |->
        IF s[i] \in UpperLetters
        THEN LowerSeq[CHOOSE n \in 1..26 : UpperSeq[n] = s[i]]
        ELSE s[i]]

\* String.prototype.includes
Includes(s, q) == \E i \in 1..(Len(s) - Len(q) + 1) : StartsWithAt(s, q, i)

\* `${base}[${i}]`, i counted from 0
ElementPath(base, i) == base \o <<"[">> \o NumToChars(i) \o <<"]">>

\* `${base}${key}`, the separator left out
MemberPath_NoDot(base, key) == base \o key

\* `${base}${sep}${key}` with sep = base ? "." : ""
MemberPath(base, key) == base \o (IF base # <<>> THEN <<".">> ELSE <<>>) \o key

\* each child's path is pushed, then the paths below the child
RECURSIVE extractPaths(_, _)
extractPaths(value, base) ==
    CASE value.t = "arr" ->
            ConcatRange([i \in 1..Len(value.v) |->
                <<ElementPath(base, i - 1)>>
                    \o extractPaths(value.v[i], ElementPath(base, i - 1))],
                1, Len(value.v))
      [] value.t = "obj" ->
            ConcatRange([i \in 1..Len(value.v) |->
                <<MemberPath(base, value.v[i][1])>>
                    \o extractPaths(value.v[i][2], MemberPath(base, value.v[i][1]))],
                1, Len(value.v))
      [] OTHER -> <<>>

\* Case-insensitive filter for paths by substring query
filterPaths(paths, query) ==
    LET q == ToLowerCase(Trim(query))
        Kept(p) == Includes(ToLowerCase(p), q)
    IN  IF q = <<>> THEN paths ELSE SelectSeq(paths, Kept)

---------------------------------------------------------------------------
(* The tree of a decoded value: createValuePreview, buildJsonTree and      *)
(* filterTreeByQuery of the tree view of AppShell (src/unnamed/part_001).  *)
(* A JsonTreeNode is a record [key, path, type, valuePreview, children];   *)
(* an optional property that the node does not have is None.               *)

\* the character U+2026 (horizontal ellipsis), written by its code point
Ellipsis == "U+2026"

PreviewLen == 24   \* the cut of createValuePreview

createValuePreview_NoCut(v) ==
    CASE v.t = "null" -> tNull
      [] v.t = "str" -> v.v
      [] v.t = "num" -> NumToChars(v.v)
      [] v.t = "bool" -> IF v.v THEN tTrue ELSE tFalse
      [] OTHER -> <<>>

createValuePreview(v) ==
    CASE v.t = "null" -> tNull
      [] v.t = "str" -> IF Len(v.v) > PreviewLen
                        THEN SubSeq(v.v, 1, PreviewLen) \o <<Ellipsis>>
                        ELSE v.v
      [] v.t = "num" -> NumToChars(v.v)
      [] v.t = "bool" -> IF v.v THEN tTrue ELSE tFalse
      [] OTHER -> <<>>

\* index of the last "." or "[" of s at or before i; 0 when there is none
RECURSIVE LastSeparator(_, _)
LastSeparator(s, i) ==
    IF i = 0 THEN 0
    ELSE IF s[i] \in {".", "["} THEN i ELSE LastSeparator(s, i - 1)

\* basePath.split(/\.|\[/).pop() || basePath
NodeKey(basePath) ==
    LET last == SubSeq(basePath, LastSeparator(basePath, Len(basePath)) + 1, Len(basePath))
    IN  IF last # <<>> THEN last ELSE basePath

RECURSIVE buildJsonTree(_, _)
buildJsonTree(value, basePath) ==
    CASE value.t = "arr" ->
            [key |-> NodeKey(basePath), path |-> basePath, type |-> "array",
             valuePreview |-> None,
             children |-> Some([i \in 1..Len(value.v) |->
                                buildJsonTree(value.v[i], ElementPath(basePath, i - 1))])]
      [] value.t = "obj" ->
            [key |-> NodeKey(basePath), path |-> basePath, type |-> "object",
             valuePreview |-> None,
             children |-> Some([i \in 1..Len(value.v) |->
                                buildJsonTree(value.v[i][2],
                                              basePath \o <<".">> \o value.v[i][1])])]
      [] OTHER ->
            [key |-> NodeKey(basePath), path |-> basePath, type |-> "value",
             valuePreview |-> Some(createValuePreview(value)),
             children |-> None]

\* node.valuePreview || ""
PreviewOrEmpty(node) == IF node.valuePreview = None THEN <<>> ELSE node.valuePreview[1]

\* node.path or the preview contains the lower-cased query
SelfMatch(node, ql) ==
    \/ Includes(ToLowerCase(node.path), ql)
    \/ Includes(ToLowerCase(PreviewOrEmpty(node)), ql)

KeptBranch_Unpruned(node, filteredChildren, selfMatch) ==
    IF Len(filteredChildren) > 0 \/ selfMatch THEN Some(node) ELSE None

\* { ...node, children: filteredChildren } when a child is left or the node
\* itself matches, else null
KeptBranch(node, filteredChildren, selfMatch) ==
    IF Len(filteredChildren) > 0 \/ selfMatch
    THEN Some([node EXCEPT !.children = Some(filteredChildren)])
    ELSE None

\* the result is None for null and Some(node) for a node; .map(...).filter(!!c)
\* is the concatenation of the children's results
RECURSIVE filterTreeByQuery(_, _)
filterTreeByQuery(node, q) ==
    IF q = <<>> THEN Some(node)
    ELSE IF node.children # None /\ Len(node.children[1]) > 0
         THEN KeptBranch(node,
                         ConcatRange([i \in 1..Len(node.children[1]) |->
                                        filterTreeByQuery(node.children[1][i], q)],
                                     1, Len(node.children[1])),
                         SelfMatch(node, ToLowerCase(q)))
         ELSE IF SelfMatch(node, ToLowerCase(q)) THEN Some(node) ELSE None

---------------------------------------------------------------------------
(* Inputs of the normalizer.  An input is a value written out as text in a *)
(* style: the style says how string literals and keys are quoted, whether  *)
(* closing brackets are preceded by a comma, what whitespace follows "," *)
(* and ":", and which comment stands in which gap between two tokens.      *)

MaxElems == 2   \* members of a container
MaxDepth == 2   \* nesting depth of containers

sA == <<"a">>
sAnn == <<"A", "n", "n">>
sApos == <<"i", "t", "'", "s", " ", "o", "k">>
sQuoted == <<"a", " ", "'", "b", "'", " ", "c">>
sDq == <<"s", "a", "y", " ", "\"", "h", "i", "\"">>
sUndef == <<"u", "n", "d", "e", "f", "i", "n", "e", "d">>
sComma == <<"a", ",", " ", "]">>
sLine == <<"x", " ", "/", "/", " ", "y">>
sUrl == <<"h", "t", "t", "p", ":", "/", "/", "x">>
sBlock == <<"a", "/", "*", " ", "b", " ", "*", "/", "c">>
sKey == <<"{", "k", ":", " ", "v">>
sBack == <<"a", "\\", "b">>
kA == <<"a">>
kName == <<"n", "a", "m", "e">>
kAge == <<"a", "g", "e">>
kMsg == <<"m", "s", "g">>
kIdent == <<"b", "_", "1", "-", "x">>
cmBlock == <<"/", "*", " ", "c", " ", "*", "/">>
cmBlockNl == <<"/", "*", " ", "c", "\n", " ", "*", "/">>
cmLineSp == <<" ", "/", "/", " ", "c", "\n">>
cmLine == <<"/", "/", " ", "c", "\n">>

ScalarLeaves == {Null, Bool(TRUE), Bool(FALSE), Num(0), Num(1), Num(12)}
PlainStrings == {<<>>, sA, sAnn}
\* string contents holding what one of the rewrite stages looks for
MarkedStrings == {sApos, sQuoted, sDq, sUndef, sComma, sLine, sUrl, sBlock, sKey, sBack}

\* the place of a bare word undefined in a written value
Undef == [t |-> "undef", v |-> 0]

\* the value with null at each place of the bare word undefined
RECURSIVE Nullified(_)
Nullified(x) ==
    CASE x.t = "undef" -> Null
      [] x.t = "arr" -> Arr([i \in 1..Len(x.v) |-> Nullified(x.v[i])])
      [] x.t = "obj" -> Obj([i \in 1..Len(x.v) |-> <<x.v[i][1], Nullified(x.v[i][2])>>])
      [] OTHER -> x

FillElems(n) == [i \in 1..n |-> Num(i + 1)]
FillKey(i) == IF i = 1 THEN kAge ELSE kAge \o NumToChars(i)
FillMembers(n) == [i \in 1..n |-> <<FillKey(i), Num(i + 2)>>]

\* the containers of 0, 1 and MaxElems members whose first member is drawn
\* from S and whose other members are fixed
Containers(S, keys) ==
    {Arr(<<>>), Obj(<<>>)}
    \cup {Arr(<<e>> \o FillElems(n)) : e \in S, n \in {0, MaxElems - 1}}
    \cup {Obj(<<<<k, e>>>> \o FillMembers(n)) : k \in keys, e \in S, n \in {0, MaxElems - 1}}

RECURSIVE ValuesOf(_, _, _)
ValuesOf(leaves, keys, d) ==
    IF d = 0 THEN leaves
    ELSE LET below == ValuesOf(leaves, keys, d - 1) IN below \cup Containers(below, keys)

\* the string contents of a value, keys included
RECURSIVE StringsIn(_)
StringsIn(x) ==
    CASE x.t = "str" -> {x.v}
      [] x.t = "arr" -> UNION {StringsIn(x.v[i]) : i \in 1..Len(x.v)}
      [] x.t = "obj" -> UNION {{x.v[i][1]} \cup StringsIn(x.v[i][2]) : i \in 1..Len(x.v)}
      [] OTHER -> {}

IsIdentifier(k) ==
    /\ k # <<>>
    /\ IsIdentStart(k[1])
    /\ \A i \in 1..Len(k) : IsIdentChar(k[i])

\* a JavaScript single-quoted literal of the content
SingleQuoted(s, dqEsc) ==
    <<SQ>> \o ConcatRange([i \in 1..Len(s) |->
                CASE s[i] = SQ -> <<BS, SQ>>
                  [] s[i] = BS -> <<BS, BS>>
                  [] s[i] = DQ -> IF dqEsc THEN <<BS, DQ>> ELSE <<DQ>>
                  [] s[i] = NL -> <<BS, "n">>
                  [] OTHER -> <<s[i]>>], 1, Len(s)) \o <<SQ>>

Literal(s, st) == IF st.q = "sq" THEN SingleQuoted(s, st.dqEsc) ELSE QuoteJson(s)

KeyToken(k, st) == IF st.keys = "bare" /\ IsIdentifier(k) THEN k ELSE Literal(k, st)

RECURSIVE Tokens(_, _)
RECURSIVE ItemTokens(_, _, _, _)

ItemTokens(items, isObj, st, i) ==
    IF i > Len(items) THEN <<>>
    ELSE LET it == items[i]
             one == IF isObj THEN <<KeyToken(it[1], st), <<":">>>> \o Tokens(it[2], st)
                    ELSE Tokens(it, st)
             comma == IF i < Len(items) \/ st.trail THEN <<<<",">>>> ELSE <<>>
         IN  one \o comma \o ItemTokens(items, isObj, st, i + 1)

\* the tokens of the text of a value
Tokens(x, st) ==
    CASE x.t = "null" -> <<tNull>>
      [] x.t = "bool" -> IF x.v THEN <<tTrue>> ELSE <<tFalse>>
      [] x.t = "num" -> <<NumToChars(x.v)>>
      [] x.t = "str" -> <<Literal(x.v, st)>>
      [] x.t = "undef" -> <<UndefinedWord>>
      [] x.t = "arr" -> <<<<"[">>>> \o ItemTokens(x.v, FALSE, st, 1) \o <<<<"]">>>>
      [] x.t = "obj" -> <<<<"{">>>> \o ItemTokens(x.v, TRUE, st, 1) \o <<<<"}">>>>

\* the text: the tokens in order, st.sep after each "," and ":", and the
\* comment st.cm after token st.gap (before the first token when st.gap = 0)
Render(x, st) ==
    LET ts == Tokens(x, st)
        piece(i) == ts[i] \o (IF ts[i] \in {<<",">>, <<":">>} THEN st.sep ELSE <<>>)
                          \o (IF i = st.gap THEN st.cm ELSE <<>>)
    IN  st.pad \o (IF st.gap = 0 THEN st.cm ELSE <<>>)
               \o ConcatRange([i \in 1..Len(ts) |-> piece(i)], 1, Len(ts)) \o st.pad

StrictStyle ==
    [q |-> "dq", dqEsc |-> FALSE, keys |-> "quoted", trail |-> FALSE,
     sep |-> <<>>, pad |-> <<>>, cm |-> <<>>, gap |-> 0]

Seps == {<<>>, <<" ">>}

AsStrings(contents) == {Str(c) : c \in contents}

Cases(fam, vals, styles) == {[fam |-> fam, val |-> v, st |-> s] : v \in vals, s \in styles}

\* the styles with one comment of cms in one gap of the text of v
CommentCases(fam, vals, styles, cms) ==
    UNION {{[fam |-> fam, val |-> v, st |-> [s EXCEPT !.cm = c, !.gap = g]] :
                c \in cms, g \in 0..Len(Tokens(v, s))} : v \in vals, s \in styles}

\* strict JSON: double-quoted strings and keys, no comment, no trailing comma
StrictStyles ==
    {[StrictStyle EXCEPT !.sep = s, !.pad = p] : s \in Seps, p \in {<<>>, <<" ">>}}

\* texts that are not strict JSON for one reason each
BareKeyStyles == {[StrictStyle EXCEPT !.keys = "bare", !.sep = s] : s \in Seps}
SingleQuoteStyles ==
    {[StrictStyle EXCEPT !.q = "sq", !.dqEsc = e, !.sep = s] : e \in BOOLEAN, s \in Seps}
TrailingStyles == {[StrictStyle EXCEPT !.trail = TRUE, !.sep = s] : s \in Seps}
LenientStyles ==
    BareKeyStyles \cup TrailingStyles
    \cup {[StrictStyle EXCEPT !.q = "sq", !.sep = s] : s \in Seps}

StrictCases ==
    Cases("strict",
          ValuesOf(ScalarLeaves \cup AsStrings(PlainStrings \cup MarkedStrings), {kA}, MaxDepth),
          StrictStyles)

CommentedCases ==
    CommentCases("comment",
                 ValuesOf({Null, Num(1), Str(sA), Str(sUrl)}, {kA}, MaxDepth - 1),
                 {[StrictStyle EXCEPT !.sep = s] : s \in Seps},
                 {cmBlock, cmBlockNl, cmLineSp, cmLine})

MarkerCases ==
    Cases("marker", ValuesOf(AsStrings({sLine, sUrl, sBlock}), {kA}, MaxDepth - 1), LenientStyles)

KeyTextCases ==
    Cases("keytext",
          ValuesOf(AsStrings({sKey, <<",", " ", "k", ":", " ", "1">>}), {kA}, MaxDepth - 1),
          LenientStyles)

SingleQuoteCases ==
    Cases("single",
          ValuesOf(AsStrings(PlainStrings \cup {sApos, sDq, sBack, sUndef}), {kMsg}, MaxDepth - 1),
          SingleQuoteStyles)

BareKeyCases ==
    Cases("barekey",
          ValuesOf(ScalarLeaves \cup AsStrings(PlainStrings \cup {sApos, sQuoted, sDq, sUndef, sBack}),
                   {kName, kIdent}, MaxDepth),
          BareKeyStyles)

TrailingCases ==
    Cases("trailing",
          ValuesOf({Num(1)} \cup AsStrings({sA, sApos, sQuoted, sUndef, sComma}), {kA}, MaxDepth),
          TrailingStyles)

\* strict JSON but for the bare word undefined as an element or a member value
UndefinedValues ==
    LET leaves == {Null, Num(1), Undef} \cup AsStrings(PlainStrings \cup {sUndef, sApos, sQuoted, sComma})
        below == ValuesOf(leaves, {kA}, MaxDepth - 1)
    IN  {Arr(<<e, Undef>>) : e \in below}
        \cup {Obj(<<<<kA, Undef>>, <<kName, e>>>>) : e \in below}
        \cup {Arr(<<Obj(<<<<kA, e>>>>), Undef>>) : e \in below}

UndefinedCases ==
    Cases("undefined", UndefinedValues, {[StrictStyle EXCEPT !.sep = s] : s \in Seps})

NormCases ==
    StrictCases \cup CommentedCases \cup MarkerCases \cup KeyTextCases
    \cup SingleQuoteCases \cup BareKeyCases \cup TrailingCases \cup UndefinedCases

NoCase == [fam |-> "none", val |-> Null, st |-> StrictStyle]

---------------------------------------------------------------------------
(* The component AppShell.  A "T | null" state is <<>> for null and <<x>>  *)
(* for the value x.                                                        *)


kStatus == <<"s", "t", "a", "t", "u", "s">>
sReady == <<"r", "e", "a", "d", "y">>
kHint == <<"h", "i", "n", "t">>
sHint == <<"F", "e", "t", "c", "h", " ", "a", "n", " ", "A", "P", "I", " ", "t", "o", " ",
           "p", "r", "e", "v", "i", "e", "w", " ", "i", "t", "s", " ", "r", "a", "w", " ",
           "J", "S", "O", "N", " ", "h", "e", "r", "e", ".">>

\* { status: "ready", hint: "Fetch an API to preview its raw JSON here." }
ReadyValue == Obj(<<<<kStatus, Str(sReady)>>, <<kHint, Str(sHint)>>>>)

dNoScheme == <<"a", ".", "i", "o">>
dHttp == <<"h", "t", "t", "p", ":", "/", "/", "a", ".", "i", "o">>
eNoSlash == <<"x">>
eSlash == <<"/", "x">>
tBlank == <<" ", " ">>
tNotJson == <<"n", "o", "t", " ", "j", "s", "o", "n", " ", "{">>
tHtml == <<"<", "h", "t", "m", "l", ">">>
tPadded == <<" ", "[", "1", ",", "2", ",", "]", " ">>

\* what the user types into the Domain and Endpoint inputs
Domains == {<<>>, dNoScheme, dHttp}
Endpoints == {<<>>, eNoSlash, eSlash}

\* what the user types or pastes into the overlay's textarea
PasteTexts == {<<>>, tBlank, tNotJson, tPadded, tNull, <<"0">>}

\* what the clipboard may hold when the overlay opens
ClipboardTexts == {tBlank, tPadded}

\* what a server may answer
Statuses == {200, 401, 404}
Bodies == {tHtml, tNull, <<"0">>, Render(Arr(<<Num(1), Num(2)>>), StrictStyle)}
MaxElapsedMs == 1   \* Math.round(t1 - t0) ranges over 0..MaxElapsedMs

\* new URL(candidate) succeeds and its protocol is http: or https:.  The
\* candidates of the model are judged by their scheme and a non-empty host.
isValidDomainUrl(candidate) ==
    \E scheme \in {<<"h", "t", "t", "p", ":">>, <<"h", "t", "t", "p", "s", ":">>} :
        /\ StartsWithAt(candidate, scheme, 1)
        /\ \E i \in (Len(scheme) + 1)..Len(candidate) : candidate[i] \notin {"/", BS}

\* Ensures endpoint begins with a leading slash
isValidEndpointPath(candidate) == StartsWithAt(candidate, <<"/">>, 1)

\* useMemo values derived from the state
parsedObject == parseJsonSafely(rawJson)
composedUrl == domain \o endpoint
domainInvalid == IF domain = <<>> THEN FALSE ELSE ~isValidDomainUrl(domain)
endpointInvalid == IF endpoint = <<>> THEN FALSE ELSE ~isValidEndpointPath(endpoint)

\* what the Raw Response panel and the path panel render for a value of
\* isLoading and a value of rawJson: the spinner, else the value when
\* parsedObject is truthy, else the placeholder
RendersRawJson(loading, text) == ~loading /\ Truthy(parseJsonSafely(text))
RendersNoResponseYet(loading, text) == ~loading /\ ~Truthy(parseJsonSafely(text))
RendersNoPathsYet(loading, text) == ~loading /\ ~Truthy(parseJsonSafely(text))
ShowsRawJson == RendersRawJson(isLoading, rawJson)
ShowsNoResponseYet == RendersNoResponseYet(isLoading, rawJson)
ShowsNoPathsYet == RendersNoPathsYet(isLoading, rawJson)

\* `Request failed (${res.status})` for the statuses a server may answer
RequestFailed(status) ==
    CASE status = 403 -> "Request failed (403)"
      [] status = 404 -> "Request failed (404)"
      [] status = 500 -> "Request failed (500)"

InitApp ==
    /\ domain = <<>>
    /\ endpoint = <<>>
    /\ isLoading = FALSE
    /\ error = None
    /\ statusCode = None
    /\ rawJson = Stringify(ReadyValue)
    /\ toast = None
    /\ isPasteOverlayOpen = FALSE
    /\ pasteBuffer = <<>>
    /\ responseTimeMs = None
    /\ responseSizeBytes = None
    /\ inflight = <<>>
    /\ clipboardPending = FALSE
    /\ hSuperseded = FALSE
    /\ hRawCur = FALSE

\* onChange of the Domain input
SetDomain(d) ==
    /\ domain' = d
    /\ UNCHANGED <<endpoint, isLoading, error, statusCode, rawJson, toast,
                   isPasteOverlayOpen, pasteBuffer, responseTimeMs, responseSizeBytes,
                   inflight, clipboardPending>>

\* onChange of the Endpoint input
SetEndpoint(e) ==
    /\ endpoint' = e
    /\ UNCHANGED <<domain, isLoading, error, statusCode, rawJson, toast,
                   isPasteOverlayOpen, pasteBuffer, responseTimeMs, responseSizeBytes,
                   inflight, clipboardPending>>

\* the message thrown by onFetch's validation, None when it passes
ValidationError ==
    IF domain = <<>> THEN Some("Domain is required")
    ELSE IF domainInvalid THEN Some("Invalid domain URL")
    ELSE IF endpointInvalid THEN Some("Endpoint must start with /")
    ELSE None

\* onFetch up to its first await: the setters, the validation, and either
\* the catch/finally of a validation error or the request being issued
onFetch ==
    /\ statusCode' = None
    /\ responseTimeMs' = None
    /\ responseSizeBytes' = None
    /\ IF ValidationError # None
       THEN /\ error' = ValidationError
            /\ isLoading' = FALSE
            /\ inflight' = inflight
       ELSE /\ error' = None
            /\ isLoading' = TRUE
            /\ inflight' = Append(inflight, [url |-> composedUrl, phase |-> "response"])
    /\ UNCHANGED <<domain, endpoint, rawJson, toast, isPasteOverlayOpen, pasteBuffer,
                   clipboardPending>>

\* the Fetch button: disabled={isLoading}
ClickFetch == ~isLoading /\ onFetch

\* a Retry button that is always rendered
ClickRetry_Always == onFetch

\* the Retry button: rendered when error is set
ClickRetry == error # None /\ onFetch

Without(seq, i) == SubSeq(seq, 1, i - 1) \o SubSeq(seq, i + 1, Len(seq))

\* the catch block without the finally block
FetchRejected_NoFinally(i) ==
    /\ i \in 1..Len(inflight)
    /\ error' = Some("Failed to fetch")
    /\ inflight' = Without(inflight, i)
    /\ UNCHANGED <<domain, endpoint, isLoading, statusCode, rawJson, toast,
                   isPasteOverlayOpen, pasteBuffer, responseTimeMs, responseSizeBytes,
                   clipboardPending>>

\* fetch() rejects, or res.text() rejects: catch and finally
FetchRejected(i) ==
    /\ i \in 1..Len(inflight)
    /\ error' = Some("Failed to fetch")
    /\ isLoading' = FALSE
    /\ inflight' = Without(inflight, i)
    /\ UNCHANGED <<domain, endpoint, statusCode, rawJson, toast, isPasteOverlayOpen,
                   pasteBuffer, responseTimeMs, responseSizeBytes, clipboardPending>>

\* fetch() resolves with a response: onFetch from "await fetch" to "await
\* res.text()", or through catch and finally when the status is not 2xx
FetchResponded(i, status, elapsed) ==
    /\ i \in 1..Len(inflight)
    /\ inflight[i].phase = "response"
    /\ responseTimeMs' = Some(elapsed)
    /\ statusCode' = Some(status)
    /\ IF status \in 200..299
       THEN /\ inflight' = [inflight EXCEPT ![i].phase = "body"]
            /\ UNCHANGED <<error, isLoading>>
       ELSE /\ error' = Some(IF status = 401 THEN "Unauthorized (401)" ELSE RequestFailed(status))
            /\ isLoading' = FALSE
            /\ inflight' = Without(inflight, i)
    /\ UNCHANGED <<domain, endpoint, rawJson, toast, isPasteOverlayOpen, pasteBuffer,
                   responseSizeBytes, clipboardPending>>

\* setRawJson(JSON.stringify(data, null, 2)) without the test of data
BodyDecoded_NoNullTest(data) ==
    /\ rawJson' = Stringify(data)
    /\ error' = error

\* if (data == null) throw new Error("Response is not JSON"); setRawJson(...)
BodyDecoded(data) ==
    IF data = Null
    THEN /\ error' = Some("Response is not JSON")
         /\ rawJson' = rawJson
    ELSE /\ rawJson' = Stringify(data)
         /\ error' = error

\* res.text() resolves: onFetch from "await res.text()" to its end
FetchBodyRead(i, text) ==
    /\ i \in 1..Len(inflight)
    /\ inflight[i].phase = "body"
    /\ responseSizeBytes' = Some(Len(text))
    /\ BodyDecoded(parseJsonSafely(text))
    /\ isLoading' = FALSE
    /\ inflight' = Without(inflight, i)
    /\ UNCHANGED <<domain, endpoint, statusCode, toast, isPasteOverlayOpen, pasteBuffer,
                   responseTimeMs, clipboardPending>>

onReset ==
    /\ domain' = <<>>
    /\ endpoint' = <<>>
    /\ error' = None
    /\ statusCode' = None
    /\ rawJson' = Stringify(ReadyValue)
    /\ UNCHANGED <<isLoading, toast, isPasteOverlayOpen, pasteBuffer, responseTimeMs,
                   responseSizeBytes, inflight, clipboardPending>>

\* Open paste overlay and try auto-read from clipboard if permitted: up to
\* the await.  The open overlay covers the panel whose click opens it.
openPasteOverlayAndMaybeReadClipboard ==
    /\ ~isPasteOverlayOpen
    /\ isPasteOverlayOpen' = TRUE
    /\ pasteBuffer' = <<>>
    /\ clipboardPending' = TRUE
    /\ UNCHANGED <<domain, endpoint, isLoading, error, statusCode, rawJson, toast,
                   responseTimeMs, responseSizeBytes, inflight>>

\* navigator.clipboard.readText() resolves with text
ClipboardRead(text) ==
    /\ clipboardPending
    /\ clipboardPending' = FALSE
    /\ pasteBuffer' = IF Trim(text) # <<>> THEN Trim(text) ELSE pasteBuffer
    /\ UNCHANGED <<domain, endpoint, isLoading, error, statusCode, rawJson, toast,
                   isPasteOverlayOpen, responseTimeMs, responseSizeBytes, inflight>>

\* navigator.clipboard.readText() rejects: permission errors are ignored
ClipboardDenied ==
    /\ clipboardPending
    /\ clipboardPending' = FALSE
    /\ UNCHANGED <<domain, endpoint, isLoading, error, statusCode, rawJson, toast,
                   isPasteOverlayOpen, pasteBuffer, responseTimeMs, responseSizeBytes,
                   inflight>>

\* onChange of the overlay's textarea
SetPasteBuffer(text) ==
    /\ isPasteOverlayOpen
    /\ pasteBuffer' = text
    /\ UNCHANGED <<domain, endpoint, isLoading, error, statusCode, rawJson, toast,
                   isPasteOverlayOpen, responseTimeMs, responseSizeBytes, inflight,
                   clipboardPending>>

\* the overlay's Cancel button
CancelPaste ==
    /\ isPasteOverlayOpen
    /\ isPasteOverlayOpen' = FALSE
    /\ UNCHANGED <<domain, endpoint, isLoading, error, statusCode, rawJson, toast,
                   pasteBuffer, responseTimeMs, responseSizeBytes, inflight,
                   clipboardPending>>

\* applyPastedJson after the decode, with the return after the "Invalid
\* JSON" toast left out
PasteDecoded_NoReturn(data) ==
    /\ rawJson' = Stringify(data)
    /\ toast' = IF data = Null THEN Some("Invalid JSON") ELSE Some("Pasted JSON")
    /\ isPasteOverlayOpen' = (data = Null)

\* applyPastedJson after const data = parseJsonFlexible(candidate)
PasteDecoded(data) ==
    IF data = Null
    THEN /\ toast' = Some("Invalid JSON")
         /\ UNCHANGED <<rawJson, isPasteOverlayOpen>>
    ELSE /\ rawJson' = Stringify(data)
         /\ toast' = Some("Pasted JSON")
         /\ isPasteOverlayOpen' = FALSE

\* applyPastedJson without the test of the empty candidate
PasteCandidate_NoEmptyTest(candidate) == PasteDecoded(parseJsonFlexible(candidate))

\* applyPastedJson after const candidate = pasteBuffer.trim()
PasteCandidate(candidate) ==
    IF candidate = <<>>
    THEN /\ toast' = Some("Nothing to paste")
         /\ UNCHANGED <<rawJson, isPasteOverlayOpen>>
    ELSE PasteDecoded(parseJsonFlexible(candidate))

\* Validate and apply pasted JSON (the overlay's Apply button, Ctrl+Enter)
applyPastedJson ==
    /\ isPasteOverlayOpen
    /\ PasteCandidate(Trim(pasteBuffer))
    /\ UNCHANGED <<domain, endpoint, isLoading, error, statusCode, pasteBuffer,
                   responseTimeMs, responseSizeBytes, inflight, clipboardPending>>

\* the effect on toast: setTimeout(() => setToast(null), 1400)
ToastExpired ==
    /\ toast # None
    /\ toast' = None
    /\ UNCHANGED <<domain, endpoint, isLoading, error, statusCode, rawJson,
                   isPasteOverlayOpen, pasteBuffer, responseTimeMs, responseSizeBytes,
                   inflight, clipboardPending>>

---------------------------------------------------------------------------
(* The normalizer applied to one input *)

\* the path index and the tree at rest
NoIndexCase == [val |-> Null, root |-> <<>>, q |-> <<>>]

InitIx ==
    /\ ixCase = NoIndexCase
    /\ ixText = <<>>
    /\ ixValue = Null
    /\ ixPaths = <<>>
    /\ ixFlat = <<>>
    /\ ixTree = None
    /\ ixPruned = None
    /\ ixPc = "idle"

InitFn ==
    /\ fnCase = NoCase
    /\ fnInput = <<>>
    /\ fnOutput = Null
    /\ fnAgain = Null
    /\ fnPc = "idle"

\* one input of the families, written out as text
InitNorm ==
    /\ InitApp
    /\ InitIx
    /\ fnCase \in NormCases
    /\ fnInput = Render(fnCase.val, fnCase.st)
    /\ fnOutput = Null
    /\ fnAgain = Null
    /\ fnPc = "start"

\* const data = parseJsonFlexible(candidate)
Normalize ==
    /\ fnPc = "start"
    /\ fnOutput' = parseJsonFlexible(fnInput)
    /\ fnPc' = "done"
    /\ UNCHANGED <<fnCase, fnInput, fnAgain, appVars, ixVars>>

\* the accepted value is serialized as applyPastedJson does, and the text is
\* handed to parseJsonFlexible again
Renormalize ==
    /\ fnPc = "done"
    /\ fnOutput # Null
    /\ fnAgain' = parseJsonFlexible(Stringify(fnOutput))
    /\ fnPc' = "again"
    /\ UNCHANGED <<fnCase, fnInput, fnOutput, appVars, ixVars>>

NextNorm == Normalize \/ Renormalize

SpecNorm == InitNorm /\ [][NextNorm]_vars

Done == fnPc \in {"done", "again"}

\* JSON.parse(fnInput) does not throw
StrictlyValid == JsonParse(fnInput).ok

---------------------------------------------------------------------------
(* The path index and the tree applied to one decoded value.  A case is a  *)
(* value as it is written in the source text (the members of an object in  *)
(* the order of the text), a root label and a search query.                *)

kB == <<"b">>
kId == <<"i", "d">>
kUsers == <<"u", "s", "e", "r", "s">>
kOne == <<"1">>
kDotted == <<"a", ".", "b">>
kBracketed == <<"a", "[", "0", "]">>
rData == <<"d", "a", "t", "a">>

\* strings of PreviewLen - 1, PreviewLen, PreviewLen + 1 and PreviewLen + 6
\* characters
LongString(n) == [i \in 1..n |-> LowerSeq[((i - 1) % 26) + 1]]
PreviewStrings == {LongString(PreviewLen + d) : d \in {-1, 0, 1, 6}}

\* {"users":[{"id":1}]}
UsersValue == Obj(<<<<kUsers, Arr(<<Obj(<<<<kId, Num(1)>>>>)>>)>>>>)

WrittenValues ==
    {UsersValue,
     \* an array-index key written after another key
     Obj(<<<<kB, Num(1)>>, <<kOne, Num(2)>>>>),
     Obj(<<<<kA, Arr(<<Obj(<<<<kB, Null>>, <<<<"0">>, Bool(TRUE)>>>>)>>)>>>>),
     \* a key that reads like the path of another node
     Obj(<<<<kDotted, Num(1)>>, <<kA, Obj(<<<<kB, Num(2)>>>>)>>>>),
     Obj(<<<<kBracketed, Num(1)>>, <<kA, Arr(<<Num(2)>>)>>>>),
     \* a value found by its preview and not by its path
     Obj(<<<<kName, Str(sAnn)>>, <<kId, Num(12)>>>>),
     Arr(<<Str(kId), Bool(FALSE), Null>>)}
    \cup {Arr(<<Str(s)>>) : s \in PreviewStrings}
    \cup AsStrings(PreviewStrings)
    \cup ValuesOf({Num(1), Str(sAnn)}, {kA, kOne}, MaxDepth)

Roots == {rData, <<>>}
Queries == {<<>>, kId, <<"I", "D">>, <<" ", "i", "d">>, <<"a", "n", "n">>,
            <<"1">>, <<"z", "z">>}

IndexCases == {[val |-> v, root |-> r, q |-> q] : v \in WrittenValues, r \in Roots, q \in Queries}

InitIndex ==
    /\ InitApp
    /\ InitFn
    /\ ixCase \in IndexCases
    /\ ixText = Render(ixCase.val, StrictStyle)
    /\ ixValue = Null
    /\ ixPaths = <<>>
    /\ ixFlat = <<>>
    /\ ixTree = None
    /\ ixPruned = None
    /\ ixPc = "start"

\* const parsedObject = useMemo(() => parseJsonSafely(rawJson), [rawJson])
Decode ==
    /\ ixPc = "start"
    /\ ixValue' = parseJsonSafely(ixText)
    /\ ixPc' = "decoded"
    /\ UNCHANGED <<ixCase, ixText, ixPaths, ixFlat, ixTree, ixPruned, appVars, fnVars>>

\* extractPaths(parsedObject, root)
ExtractPaths ==
    /\ ixPc = "decoded"
    /\ ixPaths' = extractPaths(ixValue, ixCase.root)
    /\ ixPc' = "paths"
    /\ UNCHANGED <<ixCase, ixText, ixValue, ixFlat, ixTree, ixPruned, appVars, fnVars>>

\* filterPaths(allPaths, pathSearch)
FilterPaths ==
    /\ ixPc = "paths"
    /\ ixFlat' = filterPaths(ixPaths, ixCase.q)
    /\ ixPc' = "flat"
    /\ UNCHANGED <<ixCase, ixText, ixValue, ixPaths, ixTree, ixPruned, appVars, fnVars>>

\* buildJsonTree(parsedObject, root)
BuildTree ==
    /\ ixPc = "flat"
    /\ ixTree' = Some(buildJsonTree(ixValue, ixCase.root))
    /\ ixPc' = "tree"
    /\ UNCHANGED <<ixCase, ixText, ixValue, ixPaths, ixFlat, ixPruned, appVars, fnVars>>

\* filterTreeByQuery(rootTree, pathSearch)
FilterTree ==
    /\ ixPc = "tree"
    /\ ixPruned' = filterTreeByQuery(ixTree[1], ixCase.q)
    /\ ixPc' = "pruned"
    /\ UNCHANGED <<ixCase, ixText, ixValue, ixPaths, ixFlat, ixTree, appVars, fnVars>>

NextIndex == Decode \/ ExtractPaths \/ FilterPaths \/ BuildTree \/ FilterTree

SpecIndex == InitIndex /\ [][NextIndex]_vars

PathsDone == ixPc \in {"paths", "flat", "tree", "pruned"}
FlatDone == ixPc \in {"flat", "tree", "pruned"}
TreeDone == ixPc \in {"tree", "pruned"}
PrunedDone == ixPc = "pruned"

---------------------------------------------------------------------------
(* The component as a state machine *)

Init == InitApp /\ InitFn /\ InitIx

Next ==
    \/ \E d \in Domains : SetDomain(d) /\ UNCHANGED <<pureVars, histVars>>
    \/ \E e \in Endpoints : SetEndpoint(e) /\ UNCHANGED <<pureVars, histVars>>
    \/ ClickFetch /\ UNCHANGED <<pureVars, histVars>>
    \/ ClickRetry /\ UNCHANGED <<pureVars, histVars>>
    \/ \E i \in 1..Len(inflight) : FetchRejected(i) /\ UNCHANGED <<pureVars, histVars>>
    \/ \E i \in 1..Len(inflight), status \in Statuses, elapsed \in 0..MaxElapsedMs :
          FetchResponded(i, status, elapsed) /\ UNCHANGED <<pureVars, histVars>>
    \/ \E i \in 1..Len(inflight), text \in Bodies : FetchBodyRead(i, text) /\ UNCHANGED <<pureVars, histVars>>
    \/ onReset /\ UNCHANGED <<pureVars, histVars>>
    \/ openPasteOverlayAndMaybeReadClipboard /\ UNCHANGED <<pureVars, histVars>>
    \/ \E text \in ClipboardTexts : ClipboardRead(text) /\ UNCHANGED <<pureVars, histVars>>
    \/ ClipboardDenied /\ UNCHANGED <<pureVars, histVars>>
    \/ \E text \in PasteTexts : SetPasteBuffer(text) /\ UNCHANGED <<pureVars, histVars>>
    \/ CancelPaste /\ UNCHANGED <<pureVars, histVars>>
    \/ applyPastedJson /\ UNCHANGED <<pureVars, histVars>>
    \/ ToastExpired /\ UNCHANGED <<pureVars, histVars>>

Spec == Init /\ [][Next]_vars

\* ---- every issued request eventually resolves or rejects ----

\* a step of the network: a promise that onFetch awaits settles
FetchSettles ==
    \/ \E i \in 1..Len(inflight) : FetchRejected(i) /\ UNCHANGED <<pureVars, histVars>>
    \/ \E i \in 1..Len(inflight), status \in Statuses, elapsed \in 0..MaxElapsedMs :
          FetchResponded(i, status, elapsed) /\ UNCHANGED <<pureVars, histVars>>
    \/ \E i \in 1..Len(inflight), text \in Bodies :
          FetchBodyRead(i, text) /\ UNCHANGED <<pureVars, histVars>>

SpecLive == Init /\ [][Next]_vars /\ WF_vars(FetchSettles)

\* ---- the same steps with the history kept ----

\* an onFetch invocation starts
HistFetch == hSuperseded' = FALSE /\ hRawCur' = FALSE

\* Reset or an applied paste writes rawJson
HistOverwrite == hSuperseded' = (inflight # <<>>) /\ hRawCur' = FALSE

\* an onFetch invocation ends, with or without setRawJson
HistSettled(written) == hSuperseded' = FALSE /\ hRawCur' = (written \/ hRawCur)

NextHist ==
    \/ \E d \in Domains : SetDomain(d) /\ UNCHANGED <<pureVars, histVars>>
    \/ \E e \in Endpoints : SetEndpoint(e) /\ UNCHANGED <<pureVars, histVars>>
    \/ ClickFetch /\ HistFetch /\ UNCHANGED pureVars
    \/ ClickRetry /\ HistFetch /\ UNCHANGED pureVars
    \/ \E i \in 1..Len(inflight) : FetchRejected(i) /\ HistSettled(FALSE) /\ UNCHANGED pureVars
    \/ \E i \in 1..Len(inflight), status \in Statuses, elapsed \in 0..MaxElapsedMs :
          /\ FetchResponded(i, status, elapsed)
          /\ IF status \in 200..299 THEN UNCHANGED histVars ELSE HistSettled(FALSE)
          /\ UNCHANGED pureVars
    \/ \E i \in 1..Len(inflight), text \in Bodies :
          /\ FetchBodyRead(i, text)
          /\ HistSettled(error' # Some("Response is not JSON"))
          /\ UNCHANGED pureVars
    \/ onReset /\ HistOverwrite /\ UNCHANGED pureVars
    \/ openPasteOverlayAndMaybeReadClipboard /\ UNCHANGED <<pureVars, histVars>>
    \/ \E text \in ClipboardTexts : ClipboardRead(text) /\ UNCHANGED <<pureVars, histVars>>
    \/ ClipboardDenied /\ UNCHANGED <<pureVars, histVars>>
    \/ \E text \in PasteTexts : SetPasteBuffer(text) /\ UNCHANGED <<pureVars, histVars>>
    \/ CancelPaste /\ UNCHANGED <<pureVars, histVars>>
    \/ /\ applyPastedJson
       /\ IF toast' = Some("Pasted JSON") THEN HistOverwrite ELSE UNCHANGED histVars
       /\ UNCHANGED pureVars
    \/ ToastExpired /\ UNCHANGED <<pureVars, histVars>>

SpecHist == Init /\ [][NextHist]_vars

---------------------------------------------------------------------------
(* Properties of parseJsonFlexible, over SpecNorm *)

\* C1: for every text that is valid strict JSON, parseJsonFlexible returns
\* the same value as parseJsonSafely: the rewrite stages never change the
\* value of already-valid JSON.
C1_FastPathEquivalence ==
    (Done /\ StrictlyValid) => fnOutput = parseJsonSafely(fnInput)

\* a strict text with the word undefined in a string, which the rewrite
\* stages would change, comes back as its own value
C1_Witness ==
    /\ Done
    /\ fnCase.fam = "strict"
    /\ fnCase.val = Obj(<<<<kA, Str(sUndef)>>>>)
    /\ StrictlyValid
    /\ fnOutput = fnCase.val

\* C5: for strict JSON with one block comment or one line comment between
\* two tokens, parseJsonFlexible returns the value of the JSON without the
\* comment, wherever the marker stands.
C5_CommentsStripped ==
    (Done /\ fnCase.fam = "comment") => fnOutput = fnCase.val

\* C6: for every input decoded through the rewrite stages whose string
\* literals contain //, /* or */, the decoded strings hold those characters
\* unchanged.
C6_MarkersInStringsKept ==
    (Done /\ fnCase.fam = "marker" /\ ~StrictlyValid /\ fnOutput # Null)
        => fnOutput = fnCase.val

\* C7: for every input that goes through the rewrite stages and has a string
\* literal holding "{ident:" or ", ident:", no quotes are inserted inside the
\* literal and parseJsonFlexible returns the value with the string unchanged.
C7_KeyTextInStringsKept ==
    (Done /\ fnCase.fam = "keytext" /\ ~StrictlyValid)
        => /\ QuoteKeys(fnInput) = Render(fnCase.val, [fnCase.st EXCEPT !.keys = "quoted"])
           /\ fnOutput = fnCase.val

\* C8: for every input whose strings are single-quoted literals, an
\* apostrophe written as \', parseJsonFlexible succeeds and each decoded
\* string is exactly the intended character sequence.
C8_SingleQuotesPreserveContent ==
    (Done /\ fnCase.fam = "single") => fnOutput = fnCase.val

\* C9: for strict JSON except that the object keys are bare identifiers, the
\* string values holding no braces, commas or colons, parseJsonFlexible
\* returns the object with the identifiers as its keys and the same values.
C9_BareKeysQuoted ==
    (Done /\ fnCase.fam = "barekey") => fnOutput = fnCase.val

\* C10: for strict JSON except for a comma before each closing } or ], at
\* any depth, parseJsonFlexible returns the value of the text without those
\* commas.
C10_TrailingCommasRemoved ==
    (Done /\ fnCase.fam = "trailing") => fnOutput = fnCase.val

\* C11: for strict JSON except that some elements or member values are the
\* bare word undefined, parseJsonFlexible returns the value with null in
\* the place of each of them.
C11_UndefinedBecomesNull ==
    (Done /\ fnCase.fam = "undefined") => fnOutput = Nullified(fnCase.val)

BeforeQuotes(input) == StripLineComments(StripBlockComments(input))

\* C20: the single-quote rewrite leaves every double-quoted literal of the
\* input as it is, apostrophes in its content included: an input all of
\* whose string literals are double-quoted, and which has no quote character
\* outside them, leaves the stage as it entered it.
C20_DoubleQuotedUntouched ==
    (Done /\ fnCase.fam \in {"barekey", "trailing"} /\ ~StrictlyValid)
        => NormalizeQuotes(BeforeQuotes(fnInput)) = BeforeQuotes(fnInput)

\* C21: every single-quoted literal is rewritten to a well-formed JSON string
\* that decodes to the content of the literal, each double quote of the
\* content escaped once, whether the source wrote it bare or as \": the text
\* after the stage is strict JSON for the value written.
C21_RewrittenLiteralValid ==
    (Done /\ fnCase.fam = "single")
        => parseJsonSafely(NormalizeQuotes(BeforeQuotes(fnInput))) = fnCase.val

\* the text handed to the undefined-to-null replacement
BeforeUndefined(input) ==
    RemoveTrailingCommas(QuoteKeys(NormalizeQuotes(BeforeQuotes(input))))

\* C22: the undefined-to-null stage replaces the word only where it is a
\* bare token: a text whose only occurrences of undefined are inside string
\* literals leaves the stage as it entered it, and the strings decode with
\* the word intact.
C22_UndefinedOnlyAsToken ==
    (Done /\ fnCase.fam \in {"barekey", "trailing"} /\ ~StrictlyValid
          /\ sUndef \in StringsIn(fnCase.val))
        => /\ ReplaceUndefined(BeforeUndefined(fnInput)) = BeforeUndefined(fnInput)
           /\ fnOutput # Null => sUndef \in StringsIn(fnOutput)

\* C23: a comma followed by optional whitespace and } or ] inside a string
\* literal is kept by the trailing-comma removal: the string decodes to the
\* content of the literal.
C23_CommaInStringKept ==
    (Done /\ fnCase.fam = "trailing" /\ ~StrictlyValid /\ fnOutput # Null
          /\ sComma \in StringsIn(fnCase.val))
        => sComma \in StringsIn(fnOutput)

---------------------------------------------------------------------------
(* Properties of the component, over Spec *)

PasteApplied == applyPastedJson /\ toast' = Some("Pasted JSON")
PasteRefused == applyPastedJson /\ toast' # Some("Pasted JSON")
FetchStarted == ClickFetch \/ ClickRetry
FetchResponse ==
    \E i \in 1..Len(inflight), status \in Statuses, elapsed \in 0..MaxElapsedMs :
        FetchResponded(i, status, elapsed)
FetchTransportFailed == \E i \in 1..Len(inflight) : FetchRejected(i)
FetchBodyAccepted ==
    \E i \in 1..Len(inflight), text \in Bodies :
        FetchBodyRead(i, text) /\ parseJsonSafely(text) # Null
FetchBodyRefused ==
    \E i \in 1..Len(inflight), text \in Bodies :
        FetchBodyRead(i, text) /\ parseJsonSafely(text) = Null

\* C2: a paste of valid strict JSON, the literal null included, is applied
\* and never answered with "Invalid JSON".
C2_ValidJsonAccepted ==
    [][(applyPastedJson /\ JsonParse(Trim(pasteBuffer)).ok) => toast' = Some("Pasted JSON")]_vars

\* C3: a paste that is empty or undecodable, and every step of a fetch that
\* fails validation, fails in transport, is answered with a non-2xx status
\* or with a body that is not JSON, leaves rawJson as it was.
C3_FailedAttemptKeepsRawJson ==
    [][\/ rawJson' = rawJson
       \/ ~(PasteRefused \/ FetchStarted \/ FetchResponse \/ FetchTransportFailed
               \/ FetchBodyRefused)]_vars

\* a pasted value is on display after a refused paste and a refused body
C3_Witness ==
    /\ toast = Some("Invalid JSON")
    /\ error = Some("Response is not JSON")
    /\ rawJson = Stringify(Arr(<<Num(1), Num(2)>>))

\* C4: after a paste answered with "Pasted JSON" or a fetch that ends
\* without error, the panels show the value and never the "No response yet"
\* and "No paths yet" placeholders, whatever the type of the value.
C4_AcceptedValueShown ==
    [][(PasteApplied \/ FetchBodyAccepted)
           => /\ ~RendersNoResponseYet(isLoading', rawJson')
              /\ ~RendersNoPathsYet(isLoading', rawJson')
              /\ (~isLoading' => RendersRawJson(isLoading', rawJson'))]_vars

\* the toast of a paste: "Nothing to paste" exactly for the empty candidate,
\* "Invalid JSON" for a candidate that is not decodable
PasteSignal(candidate, shown) ==
    /\ shown = Some("Nothing to paste") <=> candidate = <<>>
    /\ \/ shown = Some("Invalid JSON")
       \/ candidate = <<>>
       \/ parseJsonFlexible(candidate) # Null

\* the error of a non-2xx response: it carries the status, and 401 has a
\* message of its own
HttpErrorSignal(status, shown) ==
    CASE status = 401 -> shown = Some("Unauthorized (401)")
      [] status = 403 -> shown = Some("Request failed (403)")
      [] status = 404 -> shown = Some("Request failed (404)")
      [] status = 500 -> shown = Some("Request failed (500)")
      [] OTHER -> FALSE

HttpErrors == {Some("Unauthorized (401)"), Some("Request failed (403)"),
               Some("Request failed (404)"), Some("Request failed (500)")}

\* a step that sets a toast and leaves what applyPastedJson leaves
ToastSet == toast' # None /\ UNCHANGED <<pasteBuffer, error, statusCode, isLoading, inflight>>

PasteSignalled ==
    [][(ToastSet /\ applyPastedJson) => PasteSignal(Trim(pasteBuffer), toast')]_vars

HttpErrorSignalled ==
    [][\A i \in 1..Len(inflight), status \in Statuses \ (200..299), elapsed \in 0..MaxElapsedMs :
          FetchResponded(i, status, elapsed)
              => statusCode' = Some(status) /\ HttpErrorSignal(status, error')]_vars

\* C18 as stated: "Nothing to paste" for an empty paste, "Invalid JSON" for
\* an undecodable one, for a non-2xx response an error carrying the status
\* and statusCode set to it, "Unauthorized (401)" for 401, and for a
\* transport failure an error with statusCode null.
C18_FailureSignals ==
    /\ PasteSignalled
    /\ HttpErrorSignalled
    /\ [][FetchTransportFailed
             => error' # None /\ error' \notin HttpErrors /\ statusCode' = None]_vars

\* C18, amended: the same, but a transport failure leaves statusCode as it
\* is: null when fetch() rejects, and what it is then (the status of the
\* response, or null after a Reset) when the reading of the body fails.
C18_FailureSignalsAmended ==
    /\ PasteSignalled
    /\ HttpErrorSignalled
    /\ [][\A i \in 1..Len(inflight) :
             FetchRejected(i)
                 => /\ error' # None /\ error' \notin HttpErrors
                    /\ statusCode' = statusCode
                    /\ inflight[i].phase = "response" => statusCode' = None]_vars

\* the reading of the body of a 200 response has failed, after a paste that
\* was not decodable
C18_Witness ==
    /\ error = Some("Failed to fetch")
    /\ statusCode = Some(200)
    /\ toast = Some("Invalid JSON")
    /\ inflight = <<>>

\* C19: onFetch issues a request only when the domain is an absolute
\* http/https URL and the endpoint starts with "/", and then to the URL
\* domain + endpoint; otherwise it ends with a validation error and no
\* request is sent.
C19_FetchValidated ==
    [][FetchStarted =>
          IF isValidDomainUrl(domain) /\ endpoint # <<>> /\ endpoint[1] = "/"
          THEN /\ Len(inflight') = Len(inflight) + 1
               /\ inflight'[Len(inflight')].url = domain \o endpoint
          ELSE /\ inflight' = inflight
               /\ error' # None
               /\ ~isLoading']_vars

\* C25: while isLoading is true error is null, so neither the Fetch button
\* (disabled while isLoading) nor the Retry button (rendered when error is
\* set) can start a second onFetch: at most one fetch is in flight, and one
\* is in flight exactly while isLoading.
C25_OneFetchInFlight ==
    /\ isLoading => error = None
    /\ Len(inflight) <= 1
    /\ isLoading <=> inflight # <<>>

\* a fetch is in flight, its response received and its body awaited, while
\* the toast of a refused paste is shown
C25_Witness ==
    /\ isLoading
    /\ Len(inflight) = 1
    /\ inflight[1].phase = "body"
    /\ statusCode = Some(200)
    /\ error = None
    /\ toast = Some("Invalid JSON")

---------------------------------------------------------------------------
(* Properties of the component and its history, over SpecHist *)

\* C24: the response of a fetch is written to rawJson only if no Reset and
\* no applied paste occurred between the start of that fetch and its
\* completion.
C24_SupersededFetchDropped ==
    [][\A i \in 1..Len(inflight), text \in Bodies :
          (FetchBodyRead(i, text) /\ error' # Some("Response is not JSON"))
              => ~hSuperseded]_vars

\* the chips below the panels: rendered when parsedObject is truthy, one for
\* each of statusCode, responseTimeMs and responseSizeBytes that is not null
MetadataShown ==
    /\ Truthy(parsedObject)
    /\ statusCode # None \/ responseTimeMs # None \/ responseSizeBytes # None

\* C28: in every state with isLoading = false, a status, time or size shown
\* beside the value was produced by the fetch that produced the current
\* rawJson; after a failed fetch, an applied paste or a Reset no metadata of
\* another response is shown with the displayed value.
C28_MetadataOfDisplayedValue == (~isLoading /\ MetadataShown) => hRawCur

---------------------------------------------------------------------------
(* Properties of the component under fairness of the network, over SpecLive *)

\* C26: if every issued request eventually resolves or rejects, every
\* invocation of onFetch is followed by isLoading = false, whatever its
\* outcome and whatever Reset and paste steps interleave.
C26_LoadingEnds == isLoading ~> ~isLoading

\* a fetch has ended with a body that is not JSON, after a Reset during it
C26_Witness ==
    /\ ~isLoading
    /\ inflight = <<>>
    /\ error = Some("Response is not JSON")
    /\ statusCode = None
    /\ responseSizeBytes # None

---------------------------------------------------------------------------
(* Properties of the path index and the tree, over SpecIndex *)

\* the paths of the nodes below the root in pre-order, the members of an
\* object in the order of the source text: member k of the node at P is at
\* P.k (no separator after an empty root label), element i is at P[i]
RECURSIVE DocumentOrderPaths(_, _)
DocumentOrderPaths(written, P) ==
    CASE written.t = "arr" ->
            ConcatRange([i \in 1..Len(written.v) |->
                <<P \o <<"[">> \o NumToChars(i - 1) \o <<"]">>>>
                    \o DocumentOrderPaths(written.v[i],
                                          P \o <<"[">> \o NumToChars(i - 1) \o <<"]">>)],
                1, Len(written.v))
      [] written.t = "obj" ->
            ConcatRange([i \in 1..Len(written.v) |->
                LET k == written.v[i][1]
                    Pk == IF P = <<>> THEN k ELSE P \o <<".">> \o k
                IN  <<Pk>> \o DocumentOrderPaths(written.v[i][2], Pk)],
                1, Len(written.v))
      [] OTHER -> <<>>

\* C13: extractPaths(value, R) is the list of the paths of the nodes below
\* the root, one entry per node, in pre-order and in the order in which the
\* keys and elements occur in the source text, with P.k for a member and
\* P[i] for an element.
C13_PathsInDocumentOrder ==
    PathsDone => ixPaths = DocumentOrderPaths(ixCase.val, ixCase.root)

NoDuplicates(seq) == \A i, j \in 1..Len(seq) : seq[i] = seq[j] => i = j

\* the paths of the nodes of a tree, the root first
RECURSIVE TreePaths(_)
TreePaths(node) ==
    <<node.path>>
        \o (IF node.children = None THEN <<>>
            ELSE ConcatRange([i \in 1..Len(node.children[1]) |->
                                TreePaths(node.children[1][i])],
                             1, Len(node.children[1])))

\* C14: no two distinct nodes of a decoded value have the same path, in the
\* flat list of extractPaths and in the tree of buildJsonTree, whatever the
\* keys are (keys containing "." or "[" included).
C14_PathsUnique ==
    /\ PathsDone => NoDuplicates(ixPaths)
    /\ TreeDone => NoDuplicates(TreePaths(ixTree[1]))

\* the node's path or its value preview contains the query, letter case aside
ContainsQuery(node, q) ==
    LET shown == IF node.valuePreview = None THEN <<>> ELSE node.valuePreview[1]
        Has(text) == \E i \in 1..Len(text) :
                        /\ i + Len(q) - 1 <= Len(text)
                        /\ \A j \in 1..Len(q) :
                              ToLowerCase(<<text[i + j - 1]>>) = ToLowerCase(<<q[j]>>)
    IN  Has(node.path) \/ Has(shown)

ChildrenOf(node) == IF node.children = None THEN <<>> ELSE node.children[1]

\* the node and the nodes below it
RECURSIVE NodesOf(_)
NodesOf(node) ==
    {node} \cup UNION {NodesOf(ChildrenOf(node)[i]) : i \in 1..Len(ChildrenOf(node))}

\* a leaf is kept iff it matches; a branch iff it or a node below it matches
KeptByQuery(node, q) == \E n \in NodesOf(node) : ContainsQuery(n, q)

\* a kept node with, for a branch, exactly its kept children, pruned likewise
RECURSIVE PrunedTree(_, _)
PrunedTree(node, q) ==
    IF ChildrenOf(node) = <<>> THEN node
    ELSE LET KeptChild(c) == KeptByQuery(c, q)
             kept == SelectSeq(ChildrenOf(node), KeptChild)
         IN  [node EXCEPT !.children = Some([i \in 1..Len(kept) |-> PrunedTree(kept[i], q)])]

\* C15: for a non-empty query filterTreeByQuery keeps a leaf iff its path or
\* preview contains the query (case-insensitively), keeps a branch iff it or
\* a descendant matches, and a kept branch has exactly its kept children; the
\* result is null when nothing matches and the whole tree for an empty query.
C15_TreeFilterPrunes ==
    PrunedDone =>
        IF ixCase.q = <<>> THEN ixPruned = ixTree
        ELSE IF KeptByQuery(ixTree[1], ixCase.q)
             THEN ixPruned = Some(PrunedTree(ixTree[1], ixCase.q))
             ELSE ixPruned = None

\* the search "id" over {"name":"Ann","id":12} leaves the root with the one
\* child data.id
C15_Witness ==
    /\ PrunedDone
    /\ ixCase.q = kId
    /\ ixCase.val = Obj(<<<<kName, Str(sAnn)>>, <<kId, Num(12)>>>>)
    /\ ixPruned # None
    /\ Len(ixTree[1].children[1]) = 2
    /\ Len(ixPruned[1].children[1]) = 1
    /\ ixPruned[1].children[1][1].path = ixCase.root \o <<".">> \o kId

\* the nodes of a tree in pre-order, the root first
RECURSIVE TreeNodes(_)
TreeNodes(node) ==
    <<node>> \o ConcatRange([i \in 1..Len(ChildrenOf(node)) |->
                                TreeNodes(ChildrenOf(node)[i])],
                            1, Len(ChildrenOf(node)))

\* the paths whose text, or the preview of the node at the same place of the
\* pre-order, contains the query, in the order of the list
PathsContaining(paths, nodes, q) ==
    LET Keep(i) == ContainsQuery([path |-> paths[i],
                                  valuePreview |-> nodes[i].valuePreview], q)
        at == SelectSeq([i \in 1..Len(paths) |-> i], Keep)
    IN  [j \in 1..Len(at) |-> paths[at[j]]]

\* C16: filterPaths keeps a path iff the path text or the value preview of
\* the node it addresses contains the query (case-insensitively), in the
\* original order; the empty query keeps every path.
C16_FlatFilter ==
    FlatDone =>
        ixFlat = IF ixCase.q = <<>> THEN ixPaths
                 ELSE PathsContaining(ixPaths,
                                      Tail(TreeNodes(buildJsonTree(ixValue, ixCase.root))),
                                      ixCase.q)

\* the values of a decoded value in pre-order, the value itself first
RECURSIVE ValuesPreorder(_)
ValuesPreorder(value) ==
    <<value>>
        \o (CASE value.t = "arr" ->
                    ConcatRange([i \in 1..Len(value.v) |-> ValuesPreorder(value.v[i])],
                                1, Len(value.v))
              [] value.t = "obj" ->
                    ConcatRange([i \in 1..Len(value.v) |-> ValuesPreorder(value.v[i][2])],
                                1, Len(value.v))
              [] OTHER -> <<>>)

\* the decimal digits of n, without a leading zero
IsCanonicalNumber(text, n) ==
    /\ text # <<>>
    /\ \A i \in 1..Len(text) : text[i] \in Digits
    /\ Len(text) > 1 => text[1] # "0"
    /\ DigitsVal(text, 0) = n

\* what the claim says of the node built for a value
PreviewAsClaimed(node, value) ==
    CASE value.t = "null" -> node.valuePreview = Some(<<"n", "u", "l", "l">>)
      [] value.t = "bool" ->
            node.valuePreview = Some(IF value.v THEN <<"t", "r", "u", "e">>
                                     ELSE <<"f", "a", "l", "s", "e">>)
      [] value.t = "num" ->
            /\ node.valuePreview # None
            /\ IsCanonicalNumber(node.valuePreview[1], value.v)
      [] value.t = "str" ->
            /\ node.valuePreview # None
            /\ IF Len(value.v) <= 24
               THEN node.valuePreview[1] = value.v
               ELSE /\ Len(node.valuePreview[1]) = 25
                    /\ \A i \in 1..24 : node.valuePreview[1][i] = value.v[i]
                    /\ node.valuePreview[1][25] = Ellipsis
      [] OTHER ->
            /\ node.valuePreview = None
            /\ node.children # None
            /\ Len(node.children[1]) = Len(value.v)

\* C17: the preview of null is the text null, of a number or boolean its
\* canonical text, of a string of at most 24 characters the string, of a
\* longer string its first 24 characters and an ellipsis; the nodes of
\* objects and arrays carry children and no preview.
C17_ValuePreview ==
    TreeDone =>
        /\ Len(TreeNodes(ixTree[1])) = Len(ValuesPreorder(ixValue))
        /\ \A i \in 1..Len(TreeNodes(ixTree[1])) :
              PreviewAsClaimed(TreeNodes(ixTree[1])[i], ValuesPreorder(ixValue)[i])

\* a string of 25 characters below an array, shown cut
C17_Witness ==
    /\ TreeDone
    /\ ixCase.val = Arr(<<Str(LongString(25))>>)
    /\ ixTree[1].valuePreview = None
    /\ Len(ixTree[1].children[1][1].valuePreview[1]) = 25
    /\ ixTree[1].children[1][1].valuePreview[1][25] = Ellipsis

\* C29: for every decoded value and the root label data, the paths of the
\* nodes of buildJsonTree(value, "data") in pre-order, the root left out, are
\* the same sequence as extractPaths(value, "data").
C29_TreeAndListAgree ==
    (TreeDone /\ ixCase.root = rData) => Tail(TreePaths(ixTree[1])) = ixPaths

\* {"users":[{"id":1}]}: three paths, the last one data.users[0].id
C29_Witness ==
    /\ TreeDone
    /\ ixCase.root = rData
    /\ ixCase.val = UsersValue
    /\ Len(ixPaths) = 3
    /\ ixPaths[3] = ElementPath(MemberPath(rData, kUsers), 0) \o <<".">> \o kId
    /\ Len(TreePaths(ixTree[1])) = 4

\* below the node of value: the key of each child is the member's name under
\* an object and the decimal index under an array
RECURSIVE KeysNameMembers(_, _)
KeysNameMembers(node, value) ==
    \A i \in 1..Len(ChildrenOf(node)) :
        LET child == ChildrenOf(node)[i]
        IN  IF value.t = "arr"
            THEN child.key = NumToChars(i - 1) /\ KeysNameMembers(child, value.v[i])
            ELSE child.key = value.v[i][1] /\ KeysNameMembers(child, value.v[i][2])

\* C30: the key of every non-root node built by buildJsonTree is the
\* member's name when the parent is an object and the decimal index when the
\* parent is an array, and the key of the root node is the root label.
C30_KeysNameMembers ==
    (TreeDone /\ ixCase.root = rData) =>
        /\ ixTree[1].key = rData
        /\ KeysNameMembers(ixTree[1], ixValue)

=============================================================================
